---- MODULE Spec2Model ----
(***************************************************************************)
(* A model of src/src/range.rs: the TextRange value type, a half-open      *)
(* interval [start, end) of TextSize offsets, its checked factory, its     *)
(* accessors, its containment predicates, intersection / covering, and     *)
(* indexing of a str by a range.                                           *)
(*                                                                         *)
(* TextSize wraps a u32.  TLC's integers are 32-bit signed, so u32::MAX    *)
(* itself is not representable; the raw width is the definition Width and  *)
(* the model is the same program over a raw type of Width bits.            *)
(*                                                                         *)
(* The state is that of a caller that keeps two ranges it has built (a, b),*)
(* feeds them back to the operations, and remembers the last call made     *)
(* with its arguments and what it returned (last).  A panic ends the run.  *)
(***************************************************************************)
EXTENDS Integers, Sequences, FiniteSets, TLC

VARIABLES a, b, last

vars == <<a, b, last>>

---------------------------------------------------------------------------
(* Bounds of the model *)

\* number of bits of the raw offset (u32 in the source)
Width == 8

\* the small offsets 0..MaxOff are fed to the operations, next to the two
\* largest raw values
MaxOff == 4

\* the texts that are indexed hold at most MaxChars characters
MaxChars == 2

---------------------------------------------------------------------------
(* The offset scalar *)

\* u32::MAX, the largest raw value (range.rs:80 compares end.raw with it)
U32_MAX == 2^Width - 1

\* TextSize::INF, the sentinel: the maximum raw value
INF == U32_MAX

\* usize::MAX of a host whose usize is twice as wide as the raw offset
USIZE_MAX == 2^(2 * Width) - 1

\* usize::from(TextSize): `raw as usize`
ToUsize(raw) == raw % (USIZE_MAX + 1)

\* `bool as usize`
BoolAsUsize(c) == IF c THEN 1 ELSE 0

\* the offsets the caller passes in
Offsets == (0..MaxOff) \cup {INF - 1, INF}

---------------------------------------------------------------------------
(* Outcomes of a call *)

Panic == [kind |-> "panic"]

Ret(v) == [kind |-> "ret", val |-> v]

None == [some |-> FALSE]

Some(v) == [some |-> TRUE, val |-> v]

---------------------------------------------------------------------------
(* TextRange *)

\* the struct literal TextRange { start, end }
Range(s, e) == [start |-> s, end |-> e]

\* a factory that does not check its precondition
TextRange_unchecked(s, e) == Ret(Range(s, e))

\* a factory that also rejects the empty range
TextRange_strict(s, e) == IF s < e THEN Ret(Range(s, e)) ELSE Panic

\* pub fn TextRange(start, end): assert!(start <= end)
TextRange(s, e) == IF s <= e THEN Ret(Range(s, e)) ELSE Panic

\* TextRange::empty(self, offset)
empty(self, offset) == Range(offset, offset)

\* TextRange::start(self)
start(r) == r.start

\* TextRange::end(self)
end(r) == r.end

\* TextRange::is_empty(self)
is_empty(r) == start(r) = end(r)

\* end.raw - start.raw on the raw type, as a release build computes it
WrapSub(x, y) == (x - y + U32_MAX + 1) % (U32_MAX + 1)

\* len that tests only the sentinel, not emptiness
len_no_empty_check(r) ==
    LET arr == <<WrapSub(r.end, r.start), INF>>
    IN  arr[BoolAsUsize(r.end < U32_MAX) + 1]

\* TextRange::len(self): a two-element array indexed by a bool cast to usize
len(r) ==
    LET arr == <<WrapSub(r.end, r.start), INF>>
    IN  arr[BoolAsUsize((r.end < U32_MAX) /\ ~is_empty(r)) + 1]

\* the outcomes of a call of len: the subtraction is evaluated whatever the
\* index is; when it underflows, a build with overflow checks panics and a
\* build without them wraps
LenOutcomes(r) ==
    IF r.end < r.start THEN {Panic, Ret(len(r))} ELSE {Ret(len(r))}

\* contains with the end bound included
contains_end_included(r, offset) == start(r) <= offset /\ offset <= end(r)

\* TextRange::contains(self, offset): the end is excluded
contains(r, offset) == start(r) <= offset /\ offset < end(r)

\* TextRange::contains_inclusive(self, offset)
contains_inclusive(r, offset) ==
    LET point == offset
    IN  start(r) <= point /\ point <= end(r)

\* contains_range with strict comparisons
contains_range_strict(r, other) == start(r) < start(other) /\ end(other) < end(r)

\* TextRange::contains_range(self, other)
contains_range(r, other) == start(r) <= start(other) /\ end(other) <= end(r)

\* cmp::max / cmp::min on TextSize (ordered by raw value)
Max(x, y) == IF x >= y THEN x ELSE y

Min(x, y) == IF x <= y THEN x ELSE y

\* intersection that reports touching ranges as disjoint
intersection_touching_none(lhs, rhs) ==
    LET s == Max(start(lhs), start(rhs))
        e == Min(end(lhs), end(rhs))
    IN  IF e <= s THEN Ret(None)
        ELSE LET t == TextRange(s, e)
             IN  IF t = Panic THEN Panic ELSE Ret(Some(t.val))

\* TextRange::intersection(lhs, rhs)
intersection(lhs, rhs) ==
    LET s == Max(start(lhs), start(rhs))
        e == Min(end(lhs), end(rhs))
    IN  IF e < s THEN Ret(None)
        ELSE LET t == TextRange(s, e)
             IN  IF t = Panic THEN Panic ELSE Ret(Some(t.val))

\* covering that takes the larger start
covering_max_start(lhs, rhs) ==
    LET s == Max(start(lhs), start(rhs))
        e == Max(end(lhs), end(rhs))
    IN  TextRange(s, e)

\* TextRange::covering(lhs, rhs)
covering(lhs, rhs) ==
    LET s == Min(start(lhs), start(rhs))
        e == Max(end(lhs), end(rhs))
    IN  TextRange(s, e)

---------------------------------------------------------------------------
(* str and its slicing *)

\* the characters of the texts, as their UTF-8 bytes: 'a' and U+00E9
Chars == {<<97>>, <<195, 169>>}

RECURSIVE TextsOf(_)
\* the strs of exactly n characters
TextsOf(n) ==
    IF n = 0 THEN {<<>>}
    ELSE {t \o c : t \in TextsOf(n - 1), c \in Chars}

\* the strs that are indexed
Texts == UNION {TextsOf(n) : n \in 0..MaxChars}

\* str::is_char_boundary(index): 0 and len are boundaries, a position inside
\* the str is one iff its byte is not a continuation byte (0x80..=0xBF)
IsCharBoundary(text, i) ==
    \/ i = 0
    \/ i = Len(text)
    \/ i < Len(text) /\ ~(text[i + 1] >= 128 /\ text[i + 1] < 192)

\* the slice of text over the byte positions [from, to)
Slice(text, from, to) ==
    [from |-> from, to |-> to, bytes |-> [i \in 1..(to - from) |-> text[from + i]]]

\* &self[from..to] on a str
StrRange(text, from, to) ==
    IF from <= to /\ to <= Len(text)
       /\ IsCharBoundary(text, from) /\ IsCharBoundary(text, to)
    THEN Ret(Slice(text, from, to))
    ELSE Panic

\* &self[from..] on a str
StrRangeFrom(text, from) ==
    IF from <= Len(text) /\ IsCharBoundary(text, from)
    THEN Ret(Slice(text, from, Len(text)))
    ELSE Panic

\* indexing that takes the sentinel for the literal maximum offset
index_literal_end(text, r) ==
    StrRange(text, ToUsize(start(r)), ToUsize(r.end))

\* impl Index<TextRange> for str
index(text, r) ==
    LET s == ToUsize(start(r))
    IN  IF r.end = INF THEN StrRangeFrom(text, s)
        ELSE StrRange(text, s, ToUsize(r.end))

\* impl IndexMut<TextRange> for str
index_mut(text, r) ==
    LET s == ToUsize(start(r))
    IN  IF r.end = INF THEN StrRangeFrom(text, s)
        ELSE StrRange(text, s, ToUsize(r.end))

---------------------------------------------------------------------------
(* The caller *)

Regs == {"a", "b"}

Reg(x) == IF x = "a" THEN a ELSE b

Call(op, args, out) == [op |-> op, args |-> args, out |-> out]

\* no call has panicked
Running == last.out.kind = "ret"

\* keep the range r in register dst
Store(dst, r) ==
    /\ a' = IF dst = "a" THEN r ELSE a
    /\ b' = IF dst = "b" THEN r ELSE b

Init ==
    /\ a = Range(0, 0)
    /\ b = Range(0, 0)
    /\ last = Call("init", <<>>, Ret(Range(0, 0)))

\* TextRange(s, e), the result kept in dst
Make(s, e, dst) ==
    /\ Running
    /\ LET out == TextRange(s, e)
       IN  /\ last' = Call("TextRange", <<s, e>>, out)
           /\ IF out = Panic THEN UNCHANGED <<a, b>> ELSE Store(dst, out.val)

\* x.empty(o), the result kept in dst
Empty(x, o, dst) ==
    /\ Running
    /\ LET r == empty(Reg(x), o)
       IN  /\ last' = Call("empty", <<Reg(x), o>>, Ret(r))
           /\ Store(dst, r)

\* x.start() and x.end()
Start(x) ==
    /\ Running
    /\ last' = Call("start", <<Reg(x)>>, Ret(start(Reg(x))))
    /\ UNCHANGED <<a, b>>

End(x) ==
    /\ Running
    /\ last' = Call("end", <<Reg(x)>>, Ret(end(Reg(x))))
    /\ UNCHANGED <<a, b>>

\* x.len()
Length(x) ==
    /\ Running
    /\ \E out \in LenOutcomes(Reg(x)) : last' = Call("len", <<Reg(x)>>, out)
    /\ UNCHANGED <<a, b>>

\* x.is_empty()
IsEmpty(x) ==
    /\ Running
    /\ last' = Call("is_empty", <<Reg(x)>>, Ret(is_empty(Reg(x))))
    /\ UNCHANGED <<a, b>>

\* x.contains(p)
Contains(x, p) ==
    /\ Running
    /\ last' = Call("contains", <<Reg(x), p>>, Ret(contains(Reg(x), p)))
    /\ UNCHANGED <<a, b>>

\* x.contains_inclusive(p)
ContainsInclusive(x, p) ==
    /\ Running
    /\ last' = Call("contains_inclusive", <<Reg(x), p>>,
                    Ret(contains_inclusive(Reg(x), p)))
    /\ UNCHANGED <<a, b>>

\* x.contains_range(y)
ContainsRange(x, y) ==
    /\ Running
    /\ last' = Call("contains_range", <<Reg(x), Reg(y)>>,
                    Ret(contains_range(Reg(x), Reg(y))))
    /\ UNCHANGED <<a, b>>

\* TextRange::intersection(x, y); a present result is kept in dst
Intersection(x, y, dst) ==
    /\ Running
    /\ LET out == intersection(Reg(x), Reg(y))
       IN  /\ last' = Call("intersection", <<Reg(x), Reg(y)>>, out)
           /\ IF out # Panic /\ out.val.some
              THEN Store(dst, out.val.val)
              ELSE UNCHANGED <<a, b>>

\* TextRange::covering(x, y), the result kept in dst
Covering(x, y, dst) ==
    /\ Running
    /\ LET out == covering(Reg(x), Reg(y))
       IN  /\ last' = Call("covering", <<Reg(x), Reg(y)>>, out)
           /\ IF out = Panic THEN UNCHANGED <<a, b>> ELSE Store(dst, out.val)

\* &text[x]
Index(text, x) ==
    /\ Running
    /\ last' = Call("index", <<text, Reg(x)>>, index(text, Reg(x)))
    /\ UNCHANGED <<a, b>>

\* &mut text[x]
IndexMut(text, x) ==
    /\ Running
    /\ last' = Call("index_mut", <<text, Reg(x)>>, index_mut(text, Reg(x)))
    /\ UNCHANGED <<a, b>>

Next ==
    \/ \E s \in Offsets, e \in Offsets, dst \in Regs : Make(s, e, dst)
    \/ \E x \in Regs, o \in Offsets, dst \in Regs : Empty(x, o, dst)
    \/ \E x \in Regs : Start(x)
    \/ \E x \in Regs : End(x)
    \/ \E x \in Regs : Length(x)
    \/ \E x \in Regs : IsEmpty(x)
    \/ \E x \in Regs, p \in Offsets : Contains(x, p)
    \/ \E x \in Regs, p \in Offsets : ContainsInclusive(x, p)
    \/ \E x \in Regs, y \in Regs : ContainsRange(x, y)
    \/ \E x \in Regs, y \in Regs, dst \in Regs : Intersection(x, y, dst)
    \/ \E x \in Regs, y \in Regs, dst \in Regs : Covering(x, y, dst)
    \/ \E text \in Texts, x \in Regs : Index(text, x)
    \/ \E text \in Texts, x \in Regs : IndexMut(text, x)

Spec == Init /\ [][Next]_vars

---------------------------------------------------------------------------
(* Properties *)

\* the arguments and the result of the last call
Arg(i) == last.args[i]

Out == last.out

\* the ranges with start <= end over the offsets of the model
ValidRanges ==
    {r \in {Range(s, e) : s \in Offsets, e \in Offsets} : r.start <= r.end}

\* C1: every range produced by the factory, empty, intersection or covering,
\* from arguments that are themselves such results, has start() <= end().
C1_StartLeEnd ==
    /\ start(a) <= end(a)
    /\ start(b) <= end(b)
    /\ (last.op \in {"TextRange", "empty", "covering"} /\ Out # Panic)
          => start(Out.val) <= end(Out.val)
    /\ (last.op = "intersection" /\ Out # Panic /\ Out.val.some)
          => start(Out.val.val) <= end(Out.val.val)

\* a covering of two different earlier results, reaching the sentinel, is kept
C1_Witness ==
    /\ last.op = "covering"
    /\ Arg(1) # Arg(2)
    /\ Out # Panic
    /\ a = Out.val
    /\ start(a) > 0
    /\ end(a) = INF

\* C2: for start <= end < INF, len() returns exactly end - start.
C2_LenFinite ==
    (last.op = "len" /\ start(Arg(1)) <= end(Arg(1)) /\ end(Arg(1)) < INF)
        => Out = Ret(end(Arg(1)) - start(Arg(1)))

\* C3: for a non-empty range with end = INF, whatever its start, len()
\* returns INF itself.
C3_LenSentinel ==
    (last.op = "len" /\ start(Arg(1)) < end(Arg(1)) /\ end(Arg(1)) = INF)
        => Out = Ret(INF)

\* C4: intersection never aborts; it is absent exactly when the smaller end
\* is below the larger start, and otherwise is the range from the larger
\* start to the smaller end, so ranges touching at p give the empty (p, p).
C4_Intersection ==
    last.op = "intersection" =>
        LET l == Arg(1)
            r == Arg(2)
            s == IF l.start >= r.start THEN l.start ELSE r.start
            e == IF l.end <= r.end THEN l.end ELSE r.end
        IN  /\ Out # Panic
            /\ Out.val.some <=> ~(e < s)
            /\ Out.val.some => Out.val.val = [start |-> s, end |-> e]

\* two non-empty ranges that touch at a single point were intersected
C4_Witness ==
    /\ last.op = "intersection"
    /\ start(Arg(1)) < end(Arg(1))
    /\ end(Arg(1)) = start(Arg(2))
    /\ start(Arg(2)) < end(Arg(2))
    /\ Out = Ret(Some(Range(end(Arg(1)), end(Arg(1)))))

\* C5: the factory aborts for every s > e, and for every s <= e (s = e and
\* e = INF included) returns a range with start() = s and end() = e.
C5_Factory ==
    last.op = "TextRange" =>
        /\ Arg(1) > Arg(2) => Out = Panic
        /\ Arg(1) <= Arg(2) =>
              /\ Out # Panic
              /\ start(Out.val) = Arg(1)
              /\ end(Out.val) = Arg(2)

\* the factory was called with s = e = INF and returned
C5_Witness ==
    /\ last.op = "TextRange"
    /\ Arg(1) = INF
    /\ Arg(2) = INF
    /\ Out # Panic

\* C6: covering never aborts, returns the range from the smaller start to
\* the larger end, which is the smallest range containing both arguments
\* under contains_range, and gives the same result with its arguments swapped.
C6_Covering ==
    last.op = "covering" =>
        LET l == Arg(1)
            r == Arg(2)
            s == IF l.start <= r.start THEN l.start ELSE r.start
            e == IF l.end >= r.end THEN l.end ELSE r.end
        IN  /\ Out # Panic
            /\ Out.val = [start |-> s, end |-> e]
            /\ contains_range(Out.val, l)
            /\ contains_range(Out.val, r)
            /\ \A c \in ValidRanges :
                  (contains_range(c, l) /\ contains_range(c, r))
                      => contains_range(c, Out.val)
            /\ covering(r, l) = Out

\* two ranges with a gap between them, the later one first, were covered
C6_Witness ==
    /\ last.op = "covering"
    /\ end(Arg(2)) < start(Arg(1))
    /\ start(Arg(2)) < end(Arg(2))
    /\ start(Arg(1)) < end(Arg(1))
    /\ Out = Ret(Range(start(Arg(2)), end(Arg(1))))

\* the length in bytes of the UTF-8 character whose first byte is byte
Utf8Len(byte) ==
    IF byte < 128 THEN 1 ELSE IF byte < 224 THEN 2 ELSE IF byte < 240 THEN 3 ELSE 4

RECURSIVE CharStarts(_, _)
\* the positions of text, from i on, at which a character starts or the text ends
CharStarts(text, i) ==
    IF i >= Len(text) THEN {i}
    ELSE {i} \cup CharStarts(text, i + Utf8Len(text[i + 1]))

\* position i of text does not fall inside a character
OnChar(text, i) == i \in CharStarts(text, 0)

\* the positions [from, to) of text
Positions(text, from, to) ==
    [from |-> from, to |-> to, bytes |-> SubSeq(text, from + 1, to)]

\* C7 as stated: indexing a text of n bytes gives the suffix from start when
\* end = INF and start <= n, the positions [start, end) when end is finite
\* and start <= end <= n, and aborts when end is finite and above n or
\* start is above n.
C7_IndexAsStated ==
    last.op \in {"index", "index_mut"} =>
        LET text == Arg(1)
            r == Arg(2)
            n == Len(text)
        IN  /\ (r.end = INF /\ r.start <= n)
                  => Out = Ret(Positions(text, r.start, n))
            /\ (r.end < INF /\ r.start <= r.end /\ r.end <= n)
                  => Out = Ret(Positions(text, r.start, r.end))
            /\ ((r.end < INF /\ r.end > n) \/ r.start > n) => Out = Panic

\* C7, amended: the same, provided start, and end when it is finite, do not
\* fall inside a multi-byte character of the text; when one of them does,
\* indexing aborts too.  The mutable and immutable variants agree.
C7_IndexOnCharBoundaries ==
    last.op \in {"index", "index_mut"} =>
        LET text == Arg(1)
            r == Arg(2)
            n == Len(text)
        IN  /\ (r.end = INF /\ r.start <= n /\ OnChar(text, r.start))
                  => Out = Ret(Positions(text, r.start, n))
            /\ (r.end < INF /\ r.start <= r.end /\ r.end <= n
                    /\ OnChar(text, r.start) /\ OnChar(text, r.end))
                  => Out = Ret(Positions(text, r.start, r.end))
            /\ ((r.end < INF /\ r.end > n) \/ r.start > n) => Out = Panic
            /\ (r.start <= n /\ ~OnChar(text, r.start)) => Out = Panic
            /\ (r.end < INF /\ r.end <= n /\ ~OnChar(text, r.end)) => Out = Panic
            /\ index(text, r) = index_mut(text, r)

\* a text holding a two-byte character was indexed from past that character
\* to the sentinel, and the non-empty suffix came back
C7_Witness ==
    /\ last.op = "index_mut"
    /\ end(Arg(2)) = INF
    /\ start(Arg(2)) = 2
    /\ Len(Arg(1)) > 2
    /\ Arg(1)[1] >= 128
    /\ Out = Ret(Positions(Arg(1), 2, Len(Arg(1))))

C9_Contains ==
    /\ last.op = "contains" =>
          Out = Ret(Arg(1).start <= Arg(2) /\ Arg(2) < Arg(1).end)
    /\ last.op = "contains_inclusive" =>
          Out = Ret(Arg(1).start <= Arg(2) /\ Arg(2) <= Arg(1).end)
    /\ last.op \in {"contains", "contains_inclusive"} =>
          \A p \in Offsets :
              /\ p # end(Arg(1)) => (contains(Arg(1), p) <=> contains_inclusive(Arg(1), p))
              /\ p = end(Arg(1)) => (contains_inclusive(Arg(1), p) /\ ~contains(Arg(1), p))
              /\ is_empty(Arg(1)) => ~contains(Arg(1), p)

\* contains was asked about the end of a non-empty range
C9_Witness ==
    /\ last.op = "contains"
    /\ start(Arg(1)) < end(Arg(1))
    /\ Arg(2) = end(Arg(1))
    /\ Out = Ret(FALSE)

\* C10: contains_range(other) is true iff self.start <= other.start and
\* other.end <= self.end; every range contains itself, and an empty range
\* (p, p) contains a valid range x iff x = (p, p).
C10_ContainsRange ==
    last.op = "contains_range" =>
        LET self == Arg(1)
            other == Arg(2)
        IN  /\ Out = Ret(self.start <= other.start /\ other.end <= self.end)
            /\ contains_range(self, self)
            /\ contains_range(other, other)
            /\ is_empty(self) =>
                  \A x \in ValidRanges : contains_range(self, x) <=> x = self

\* an empty range was asked about a non-empty range starting at its point
C10_Witness ==
    /\ last.op = "contains_range"
    /\ is_empty(Arg(1))
    /\ start(Arg(2)) = start(Arg(1))
    /\ start(Arg(2)) < end(Arg(2))
    /\ Out = Ret(FALSE)

====
